---- MODULE Spec2Model ----
(***************************************************************************)
(* The shopping-list page (src/src/app/page.tsx): one React component that *)
(* keeps an ordered collection of items in memory, mirrors it to           *)
(* localStorage under the key "shopping-items" and loads it back 300 ms    *)
(* after mounting.                                                         *)
(*                                                                         *)
(* One action models one event React runs to completion: the handler, the  *)
(* re-render it causes and the effects of that render.  The browser is     *)
(* single-threaded, so nothing interleaves inside an action.               *)
(***************************************************************************)
EXTENDS Integers, Sequences, FiniteSets

VARIABLES
    status,    \* life cycle of the component: "initial", "mounted", "crashed", "unmounted"
    items,     \* useState<Item[]>([])
    loading,   \* useState(true)
    error,     \* useState<string | null>(null)
    editing,   \* useState<Item | null>(null)
    stored,    \* the localStorage entry "shopping-items"
    lastWrite, \* outcome of the latest localStorage.setItem: "none", "ok", "threw"
    writable,  \* whether localStorage accepts writes in this session
    previous   \* what the previous session left in localStorage, kept until the
               \* start-up load has completed

vars == <<status, items, loading, error, editing, stored, lastWrite, writable, previous>>

----------------------------------------------------------------------------
(* Bounds and input sets *)

\* The longest collection an add builds.
MaxItems == 2

\* Identifiers safeId can return.
IdSeq == <<"id1", "id2", "id3">>
Ids == {IdSeq[i] : i \in 1..Len(IdSeq)}

\* Values Date.now() can return.
Timestamps == {2000}

----------------------------------------------------------------------------
(* JavaScript values *)

\* A number, counted in halves so that fractions and Math.floor are visible.
Fin(h) == [kind |-> "finite", halves |-> h]
NaN == [kind |-> "NaN", halves |-> 0]
Infinity == [kind |-> "Infinity", halves |-> 0]
JsNull == [kind |-> "null", halves |-> 0]

\* Number.isFinite
IsFinite(x) == x.kind = "finite"

\* x <= 0 (false for NaN and for +Infinity; null converts to 0)
LeqZero(x) ==
    \/ x.kind = "finite" /\ x.halves <= 0
    \/ x.kind = "null"

\* Math.floor
Floor(x) == IF x.kind = "finite" THEN Fin(2 * (x.halves \div 2)) ELSE x

\* A string is a sequence of characters; String.prototype.trim strips the
\* white space at both ends.
IsSpace(c) == c = " "

RECURSIVE TrimStart(_)
TrimStart(s) ==
    IF s # <<>> /\ IsSpace(Head(s)) THEN TrimStart(Tail(s)) ELSE s

RECURSIVE TrimEnd(_)
TrimEnd(s) ==
    IF s # <<>> /\ IsSpace(s[Len(s)]) THEN TrimEnd(SubSeq(s, 1, Len(s) - 1)) ELSE s

Trim(s) == TrimEnd(TrimStart(s))

\* An optional field of Partial<Item>: <<>> is undefined, <<v>> is v.
Undefined == <<>>
Some(v) == <<v>>

\* a ?? b
Coalesce(opt, default) == IF opt = Undefined THEN default ELSE opt[1]

\* string | null and Item | null
NoError == "null"
NoItem == <<>>

----------------------------------------------------------------------------
(* Items *)

\* The values of the nine SelectItem entries.
CategoryValues ==
    {"produce", "dairy", "bakery", "meat", "pantry", "beverages", "snacks",
     "household", "personal-care"}

Item(id, name, quantity, category, completed, createdAt) ==
    [id |-> id, name |-> name, quantity |-> quantity, category |-> category,
     completed |-> completed, createdAt |-> createdAt]

IdsOf(list) == {list[i].id : i \in 1..Len(list)}

\* items.filter((i) => !i.completed).length
RECURSIVE remainingCount(_)
remainingCount(list) ==
    IF list = <<>> THEN 0
    ELSE (IF Head(list).completed THEN 0 ELSE 1) + remainingCount(Tail(list))

----------------------------------------------------------------------------
(* JSON and localStorage *)

\* The text stored under the key.  JSON.stringify and JSON.parse are modelled by
\* what they produce: a text is absent (getItem returns null), the empty
\* string, a text that is not JSON, the JSON of a value that is not an array,
\* or the JSON of an array whose elements are objects or null.
Absent == [kind |-> "absent", val |-> <<>>]
EmptyText == [kind |-> "empty", val |-> <<>>]
NotJson == [kind |-> "not-json", val |-> <<>>]
NonArrayJson == [kind |-> "non-array", val |-> <<>>]
ArrayJson(elems) == [kind |-> "array", val |-> elems]

\* JSON.stringify of a number: NaN and the infinities are written as null.
JsonNumber(x) == IF IsFinite(x) THEN x ELSE JsNull

\* JSON.stringify of one item, and of null.
ToJson(it) ==
    [type |-> "object", id |-> it.id, name |-> it.name,
     quantity |-> JsonNumber(it.quantity), category |-> it.category,
     completed |-> it.completed, createdAt |-> it.createdAt]
NullJson ==
    [type |-> "null", id |-> "", name |-> <<>>, quantity |-> JsNull,
     category |-> "", completed |-> FALSE, createdAt |-> 0]

\* JSON.parse of one object element.
FromJson(e) == Item(e.id, e.name, e.quantity, e.category, e.completed, e.createdAt)

RECURSIVE MapToJson(_)
MapToJson(list) ==
    IF list = <<>> THEN <<>> ELSE <<ToJson(Head(list))>> \o MapToJson(Tail(list))

RECURSIVE MapFromJson(_)
MapFromJson(elems) ==
    IF elems = <<>> THEN <<>> ELSE <<FromJson(Head(elems))>> \o MapFromJson(Tail(elems))

\* JSON.stringify(items)
Stringify(list) == ArrayJson(MapToJson(list))

\* if (raw): null and "" are falsy
Truthy(raw) == raw.kind \notin {"absent", "empty"}

\* JSON.parse(raw) throws a SyntaxError
ParseThrows(raw) == raw.kind \in {"empty", "not-json"}

\* JSON.parse(raw) is an array of objects (the render of anything else throws:
\* items.filter is not a function, or i.completed of null)
ParsesToObjects(raw) ==
    /\ raw.kind = "array"
    /\ \A i \in 1..Len(raw.val) : raw.val[i].type = "object"

\* JSON.parse(raw), for an array of objects
Parse(raw) == MapFromJson(raw.val)

\* A persist effect that writes the collection of the render before.
PersistEffectStale(list) ==
    /\ stored' = IF writable THEN Stringify(items) ELSE stored
    /\ lastWrite' = IF writable THEN "ok" ELSE "threw"

\* The persist effect: localStorage.setItem stores the text, or throws when the
\* storage takes no writes (the quota is used up, or storage is disabled), and
\* the catch block ignores the exception.
PersistEffect(list) ==
    /\ stored' = IF writable THEN Stringify(list) ELSE stored
    /\ lastWrite' = IF writable THEN "ok" ELSE "threw"

----------------------------------------------------------------------------
(* Start-up *)

LoadFailed == "Failed to load items. Local storage might be unavailable."

ItemA == Item("id1", <<"M">>, Fin(2), "produce", FALSE, 1000)
ItemB == Item("id2", <<"E">>, Fin(2), "produce", TRUE, 1000)

\* What a previous session, or anything else that writes the key, can have left.
PreviousValues ==
    {Absent, EmptyText, NotJson, NonArrayJson, ArrayJson(<<NullJson>>),
     Stringify(<<>>), Stringify(<<ItemB, ItemA>>)}

Init ==
    /\ status = "initial"
    /\ items = <<>>
    /\ loading = TRUE
    /\ error = NoError
    /\ editing = NoItem
    /\ stored \in PreviousValues
    /\ lastWrite = "none"
    /\ writable \in BOOLEAN
    /\ previous = stored

\* The first commit runs both effects in order: the load effect arms the
\* 300 ms timer, the persist effect writes the (still empty) collection.
Mount ==
    /\ status = "initial"
    /\ status' = "mounted"
    /\ PersistEffect(items)
    /\ UNCHANGED <<items, loading, error, editing, writable, previous>>

\* The timer callback, then the render and the effects of the state it sets.
LoadTimer ==
    /\ status = "mounted"
    /\ loading
    /\ loading' = FALSE
    /\ IF ~Truthy(stored)
       THEN UNCHANGED <<status, items, error, stored, lastWrite>>
       ELSE IF ParseThrows(stored)
       THEN /\ error' = LoadFailed
            /\ UNCHANGED <<status, items, stored, lastWrite>>
       ELSE IF ~ParsesToObjects(stored)
       THEN \* setItems takes the value, and the render that follows throws: the
            \* collection is left as it was here, for nothing reads it any more
            /\ status' = "crashed"
            /\ UNCHANGED <<items, error, stored, lastWrite>>
       ELSE /\ items' = Parse(stored)
            /\ PersistEffect(items')
            /\ UNCHANGED <<status, error>>
    /\ previous' = Absent    \* the start-up is over
    /\ UNCHANGED <<editing, writable>>

\* The cleanup of the load effect: clearTimeout, and the component is gone.
\* The state of the component is discarded; the stored text stays.
Unmount ==
    /\ status = "mounted"
    /\ status' = "unmounted"
    /\ items' = <<>>
    /\ loading' = TRUE
    /\ error' = NoError
    /\ editing' = NoItem
    /\ previous' = Absent
    /\ UNCHANGED <<stored, lastWrite, writable>>

----------------------------------------------------------------------------
(* Inputs of the handlers *)

\* Texts typed into a name field: "", "  ", "M", " E ".
NameInputs == {<<>>, <<" ", " ">>, <<"M">>, <<" ", "E", " ">>}

\* Numbers a quantity can be: -1, 0, 0.5, 1.5, NaN, Infinity.
QuantityInputs == {Fin(-2), Fin(0), Fin(1), Fin(3), NaN, Infinity}

\* Categories: no selection, one of the nine values, and a value outside them.
CategoryInputs == {"", "produce", "toys"}

\* The contents of the add form when "Add to list" is clicked: every way the
\* validation can fail, alone and together, and three contents it lets pass.
AddInputs ==
    {<<n, Fin(3), "produce">> : n \in NameInputs}
    \cup {<<<<"M">>, q, "produce">> : q \in QuantityInputs \ {Fin(1)}}
    \cup {<<<<"M">>, Fin(3), "">>, <<<<>>, NaN, "">>, <<<<" ", " ">>, Fin(0), "toys">>,
          <<<<"M">>, Fin(0), "">>, <<<<"M">>, Fin(1), "toys">>}

\* The objects passed to saveEdit: nothing, one field alone, or all three
\* fields as EditForm passes them.
UpdateInputs ==
    {[name |-> Undefined, quantity |-> Undefined, category |-> Undefined],
     [name |-> Undefined, quantity |-> Undefined, category |-> Some("produce")]}
    \cup {[name |-> Some(n), quantity |-> Undefined, category |-> Undefined] :
            n \in NameInputs}
    \cup {[name |-> Undefined, quantity |-> Some(q), category |-> Undefined] :
            q \in {Fin(-2), Fin(0), NaN, Infinity}}
    \cup {[name |-> Some(in[1]), quantity |-> Some(in[2]), category |-> Some(in[3])] :
            in \in {<<<<" ", "E", " ">>, Fin(3), "produce">>, <<<<"M">>, Fin(3), "produce">>,
                    <<<<"M">>, Fin(1), "toys">>, <<<<" ", " ">>, NaN, "produce">>}}

\* The edit dialog is modal: while it shows the form, the page behind it takes
\* no input.
DialogOpen == editing # NoItem

----------------------------------------------------------------------------
(* Add *)

NameRequired == "Please enter an item name."
QuantityPositive == "Quantity must be a positive number."
CategoryRequired == "Please select a category."

\* A validation that forgets the quantity.
addItemErrorNoQuantity(name, quantity, category) ==
    IF Trim(name) = <<>> THEN NameRequired
    ELSE IF category = "" THEN CategoryRequired
    ELSE NoError

\* The validation of addItem: the message it sets, or NoError when it passes.
addItemError(name, quantity, category) ==
    IF Trim(name) = <<>> THEN NameRequired
    ELSE IF ~IsFinite(quantity) \/ LeqZero(quantity) THEN QuantityPositive
    ELSE IF category = "" THEN CategoryRequired
    ELSE NoError

\* const newItem: Item = {...}
newItem(id, name, quantity, category, now) ==
    Item(id, Trim(name), Floor(quantity), category, FALSE, now)

\* An add at the end: [...prev, newItem]
append(it, prev) == prev \o <<it>>

\* (prev) => [newItem, ...prev]
prepend(it, prev) == <<it>> \o prev

\* The identifiers in use: in memory or in the stored text.  (A new UUID
\* differs from those of earlier sessions too.)
UsedIds ==
    IdsOf(items) \cup (IF editing = NoItem THEN {} ELSE {editing[1].id})
    \cup (IF ParsesToObjects(stored) THEN IdsOf(Parse(stored)) ELSE {})

\* safeId(): a random UUID, which differs from every identifier in use.  The
\* code only compares identifiers for equality, so which unused one it is makes
\* no difference, and the first of IdSeq is taken.
safeId ==
    IdSeq[CHOOSE i \in 1..Len(IdSeq) :
            IdSeq[i] \notin UsedIds /\ \A j \in 1..(i - 1) : IdSeq[j] \in UsedIds]

AddItem(name, quantity, category) ==
    /\ status = "mounted"
    /\ ~DialogOpen
    /\ IF addItemError(name, quantity, category) # NoError
       THEN /\ error' = addItemError(name, quantity, category)
            /\ UNCHANGED <<items, stored, lastWrite>>
       ELSE /\ Len(items) < MaxItems
            /\ Ids \ UsedIds # {}
            /\ \E now \in Timestamps :
                 items' = prepend(newItem(safeId, name, quantity, category, now), items)
            /\ error' = NoError
            /\ PersistEffect(items')
    /\ UNCHANGED <<status, loading, editing, writable, previous>>

----------------------------------------------------------------------------
(* Toggle and remove *)

\* A toggle that sets the flag instead of flipping it.
toggleSetsCompleted(prev, id) ==
    [i \in 1..Len(prev) |->
        IF prev[i].id = id THEN [prev[i] EXCEPT !.completed = TRUE] ELSE prev[i]]

\* prev.map((it) => (it.id === id ? { ...it, completed: !it.completed } : it))
toggleCompleted(prev, id) ==
    [i \in 1..Len(prev) |->
        IF prev[i].id = id
        THEN [prev[i] EXCEPT !.completed = ~prev[i].completed]
        ELSE prev[i]]

\* A remove that also drops everything after the item.
RECURSIVE removeItemAndRest(_, _)
removeItemAndRest(prev, id) ==
    IF prev = <<>> THEN <<>>
    ELSE IF Head(prev).id # id THEN <<Head(prev)>> \o removeItemAndRest(Tail(prev), id)
    ELSE <<>>

\* prev.filter((it) => it.id !== id)
RECURSIVE removeItem(_, _)
removeItem(prev, id) ==
    IF prev = <<>> THEN <<>>
    ELSE IF Head(prev).id # id THEN <<Head(prev)>> \o removeItem(Tail(prev), id)
    ELSE removeItem(Tail(prev), id)

\* The list, and with it every checkbox and button of an item, is rendered
\* only once loading is false.
ListRendered == status = "mounted" /\ ~loading

ToggleCompleted(id) ==
    /\ ListRendered
    /\ ~DialogOpen
    /\ items' = toggleCompleted(items, id)
    /\ PersistEffect(items')
    /\ UNCHANGED <<status, loading, error, editing, writable, previous>>

RemoveItem(id) ==
    /\ ListRendered
    /\ ~DialogOpen
    /\ items' = removeItem(items, id)
    /\ PersistEffect(items')
    /\ UNCHANGED <<status, loading, error, editing, writable, previous>>

----------------------------------------------------------------------------
(* Edit *)

NameEmpty == "Item name cannot be empty."

\* const startEdit = (item: Item) => setEditing(item)
StartEdit(i) ==
    /\ ListRendered
    /\ ~DialogOpen
    /\ i \in 1..Len(items)
    /\ editing' = Some(items[i])
    /\ UNCHANGED <<status, items, loading, error, stored, lastWrite, writable, previous>>

\* onCancel, and the dialog closing: setEditing(null)
CancelEdit ==
    /\ ListRendered
    /\ DialogOpen
    /\ editing' = NoItem
    /\ UNCHANGED <<status, items, loading, error, stored, lastWrite, writable, previous>>

nextName(updates, edited) == Coalesce(updates.name, edited.name)
nextQty(updates, edited) == Coalesce(updates.quantity, edited.quantity)
nextCat(updates, edited) == Coalesce(updates.category, edited.category)

\* The validation of saveEdit: the message it sets, or NoError when it passes.
saveEditError(updates, edited) ==
    IF Trim(nextName(updates, edited)) = <<>> THEN NameEmpty
    ELSE IF ~IsFinite(nextQty(updates, edited)) \/ LeqZero(nextQty(updates, edited))
    THEN QuantityPositive
    ELSE NoError

\* An edit that rebuilds the item from the snapshot taken when the dialog
\* opened, with the defaults of a new item.
applyEditResetsFlag(prev, updates, edited) ==
    [i \in 1..Len(prev) |->
        IF prev[i].id = edited.id
        THEN Item(edited.id, Trim(nextName(updates, edited)),
                  Floor(nextQty(updates, edited)), nextCat(updates, edited),
                  FALSE, edited.createdAt)
        ELSE prev[i]]

\* prev.map((it) => it.id === editing.id ? { ...it, name, quantity, category } : it)
applyEdit(prev, updates, edited) ==
    [i \in 1..Len(prev) |->
        IF prev[i].id = edited.id
        THEN [prev[i] EXCEPT !.name = Trim(nextName(updates, edited)),
                             !.quantity = Floor(nextQty(updates, edited)),
                             !.category = nextCat(updates, edited)]
        ELSE prev[i]]

\* EditForm, which calls saveEdit, is rendered only while editing is set, so
\* the early return of "if (!editing) return" is never taken.
SaveEdit(updates) ==
    /\ ListRendered
    /\ DialogOpen
    /\ IF saveEditError(updates, editing[1]) # NoError
       THEN /\ error' = saveEditError(updates, editing[1])
            /\ UNCHANGED <<items, editing, stored, lastWrite>>
       ELSE /\ items' = applyEdit(items, updates, editing[1])
            /\ editing' = NoItem
            /\ PersistEffect(items')
            /\ UNCHANGED error
    /\ UNCHANGED <<status, loading, writable, previous>>

----------------------------------------------------------------------------
(* The component *)

Next ==
    \/ Mount
    \/ LoadTimer
    \/ Unmount
    \/ \E in \in AddInputs : AddItem(in[1], in[2], in[3])
    \/ \E id \in Ids : ToggleCompleted(id)
    \/ \E id \in Ids : RemoveItem(id)
    \/ \E i \in 1..MaxItems : StartEdit(i)
    \/ CancelEdit
    \/ \E u \in UpdateInputs : SaveEdit(u)

Spec == Init /\ [][Next]_vars

----------------------------------------------------------------------------
(* Vocabulary of the properties *)

\* The step in which the start-up load completes.
LoadCompletes == loading /\ ~loading'

\* No handler has run since the component mounted.  While loading is true
\* only the add form is rendered: an accepted add leaves an item, a rejected
\* one leaves a message.
Untouched == items = <<>> /\ error = NoError /\ editing = NoItem

WhitespaceOnly(s) == \A i \in 1..Len(s) : s[i] = " "

IsInteger(x) == x.kind = "finite" /\ x.halves % 2 = 0
Positive(x) == x.kind = "finite" /\ x.halves > 0

\* y is the largest integer that is at most x
IsFloorOf(y, x) ==
    IsInteger(y) /\ x.kind = "finite" /\ y.halves <= x.halves /\ x.halves < y.halves + 2

\* s without its white space at both ends
IsTrimOf(t, s) ==
    \E a, b \in 0..Len(s) :
        /\ a + b + Len(t) = Len(s)
        /\ \A i \in 1..a : s[i] = " "
        /\ \A i \in 1..b : s[Len(s) + 1 - i] = " "
        /\ \A i \in 1..Len(t) : t[i] = s[a + i]
        /\ (t = <<>> \/ (t[1] # " " /\ t[Len(t)] # " "))

\* The invariants of the data model, for one item and for a collection.
WellFormedItem(it) ==
    /\ ~WhitespaceOnly(it.name)
    /\ IsInteger(it.quantity) /\ it.quantity.halves >= 2
    /\ it.category \in CategoryValues

WellFormed(list) ==
    /\ \A i \in 1..Len(list) : WellFormedItem(list[i])
    /\ \A i, j \in 1..Len(list) : list[i].id = list[j].id => i = j

\* A stored text that is the serialization of a well-formed collection.
WellFormedText(raw) == ParsesToObjects(raw) /\ WellFormed(Parse(raw))

\* A stored text that is not JSON, or the JSON of something other than an
\* array of item records.
Malformed(raw) == raw.kind \in {"not-json", "non-array"} \/ (raw.kind = "array" /\ ~ParsesToObjects(raw))

Contains(list, it) == \E i \in 1..Len(list) : list[i] = it

----------------------------------------------------------------------------
(* Properties *)

\* C1: when the start-up load completes with no user action since the mount,
\* the collection in memory is the well-formed collection the previous session
\* left under the key, and it is empty when nothing was left.
C1_PreviousSessionRestored ==
    [][(LoadCompletes /\ Untouched) =>
          /\ WellFormedText(previous) => items' = Parse(previous)
          /\ previous = Absent => items' = <<>>]_vars

\* C2: whenever the latest write of the persist effect did not throw, the text
\* under the key is the serialization of the whole collection in memory.
C2_StoredIsWholeCollection ==
    (status = "mounted" /\ lastWrite = "ok") => stored = Stringify(items)

\* C2 witness: two items were added and one was toggled, and the write of the
\* last change succeeded.
C2_Witness ==
    /\ status = "mounted" /\ lastWrite = "ok" /\ ~loading
    /\ Len(items) = 2 /\ items[2].completed /\ ~items[1].completed
    /\ stored = Stringify(items)

\* C3: when the previous session left a malformed text, the load completes
\* with an empty collection and an error message, and without an exception
\* taking the component down.
C3_MalformedTextRecovered ==
    [][(LoadCompletes /\ Untouched /\ Malformed(previous)) =>
          /\ ~loading'
          /\ items' = <<>>
          /\ error' # NoError
          /\ status' = "mounted"]_vars

\* C4: an add of a valid name, quantity and category puts exactly one new item
\* in front of the unchanged collection: a fresh identifier, the trimmed name,
\* the floor of the quantity, the given category, not completed.
C4_AddPrependsNewItem ==
    [][\A in \in AddInputs :
          LET n == in[1]
              q == in[2]
              c == in[3]
          IN (AddItem(n, q, c) /\ ~WhitespaceOnly(n) /\ Positive(q) /\ c \in CategoryValues) =>
              /\ Len(items') = Len(items) + 1
              /\ Tail(items') = items
              /\ Head(items').id \notin IdsOf(items)
              /\ IsTrimOf(Head(items').name, n)
              /\ IsFloorOf(Head(items').quantity, q)
              /\ Head(items').category = c
              /\ Head(items').completed = FALSE]_vars

\* C4 witness: " E " with quantity 1.5 was added in front of an item added before.
C4_Witness ==
    /\ status = "mounted" /\ Len(items) = 2
    /\ items[1].name = <<"E">> /\ items[1].quantity = Fin(2)
    /\ items[1].category = "produce" /\ ~items[1].completed
    /\ items[1].createdAt = 2000 /\ items[2].createdAt = 2000
    /\ items[2].name = <<"M">>

\* C5: an add whose name is empty or white space, or whose quantity is not a
\* finite positive number, changes neither the collection nor the stored text
\* and sets the message for the name, respectively for the quantity.
C5_InvalidAddRejected ==
    [][\A in \in AddInputs :
          LET n == in[1]
              q == in[2]
              c == in[3]
          IN (AddItem(n, q, c) /\ (WhitespaceOnly(n) \/ ~Positive(q))) =>
              /\ items' = items
              /\ stored' = stored
              /\ error' = IF WhitespaceOnly(n) THEN NameRequired ELSE QuantityPositive]_vars

\* C5 witness: while loading was still true (so that no edit can have set the
\* message) an add with a bad quantity was rejected, after one that was accepted.
C5_Witness ==
    /\ status = "mounted" /\ loading
    /\ error = QuantityPositive /\ Len(items) = 1

\* C6: a save of the item under edit with a valid name and quantity changes
\* that one item only (trimmed name, floor of the quantity, category as given;
\* identifier, completion flag, timestamp and position kept) and ends the edit
\* session; with an empty name or a quantity that is not a finite positive
\* number it changes no item, sets a message and keeps the session open.
C6_EditChangesOnlyEditedItem ==
    [][\A u \in UpdateInputs :
          (editing # NoItem /\ SaveEdit(u)) =>
              LET e == editing[1]
                  n == IF u.name = Undefined THEN e.name ELSE u.name[1]
                  q == IF u.quantity = Undefined THEN e.quantity ELSE u.quantity[1]
                  c == IF u.category = Undefined THEN e.category ELSE u.category[1]
              IN  IF ~WhitespaceOnly(n) /\ Positive(q)
                  THEN /\ Len(items') = Len(items)
                       /\ Cardinality({i \in 1..Len(items) : items[i].id = e.id}) = 1
                       /\ \A i \in 1..Len(items) :
                            IF items[i].id = e.id
                            THEN /\ IsTrimOf(items'[i].name, n)
                                 /\ IsFloorOf(items'[i].quantity, q)
                                 /\ items'[i].category = c
                                 /\ items'[i].id = items[i].id
                                 /\ items'[i].completed = items[i].completed
                                 /\ items'[i].createdAt = items[i].createdAt
                            ELSE items'[i] = items[i]
                       /\ editing' = NoItem
                  ELSE /\ items' = items
                       /\ error' # NoError
                       /\ editing' = editing]_vars

\* C6 witness: of the two items the previous session left, the first was renamed
\* and the second is as it was.
C6_Witness ==
    /\ status = "mounted" /\ editing = NoItem /\ Len(items) = 2
    /\ items[1] = [ItemB EXCEPT !.name = <<"M">>]
    /\ items[2] = ItemA

\* C7: a toggle flips the completion flag of the item with the identifier and
\* changes nothing else; a second toggle of the same identifier restores the
\* collection; with an identifier that is not in the collection nothing changes.
C7_ToggleFlipsOneFlag ==
    [][\A id \in Ids :
          ToggleCompleted(id) =>
              /\ Len(items') = Len(items)
              /\ \A i \in 1..Len(items) :
                    /\ items'[i].completed = (items[i].completed # (items[i].id = id))
                    /\ items'[i].id = items[i].id
                    /\ items'[i].name = items[i].name
                    /\ items'[i].quantity = items[i].quantity
                    /\ items'[i].category = items[i].category
                    /\ items'[i].createdAt = items[i].createdAt
              /\ toggleCompleted(items', id) = items
              /\ (id \notin IdsOf(items) => items' = items)]_vars

\* C7 witness: an item added in this session is completed, beside one that is not.
C7_Witness ==
    /\ status = "mounted" /\ Len(items) = 2
    /\ items[1].createdAt = 2000 /\ items[1].completed
    /\ ~items[2].completed

\* C8: a remove of an identifier in the collection takes out that one item and
\* keeps the others in their order; with an identifier that is not in the
\* collection, the collection and its length stay as they are.
C8_RemoveTakesOutOneItem ==
    [][\A id \in Ids :
          RemoveItem(id) =>
              IF id \in IdsOf(items)
              THEN /\ Len(items') = Len(items) - 1
                   /\ \E k \in 1..Len(items) :
                        /\ items[k].id = id
                        /\ items' = SubSeq(items, 1, k - 1) \o SubSeq(items, k + 1, Len(items))
              ELSE /\ items' = items
                   /\ Len(items') = Len(items)]_vars

\* C8 witness: of the two items the previous session left, the first was removed.
C8_Witness == status = "mounted" /\ ~loading /\ items = <<ItemA>>

C10_AddBeforeLoadKept ==
    [][(LoadCompletes /\ status' = "mounted") =>
          \A i \in 1..Len(items) :
              /\ Contains(items', items[i])
              /\ lastWrite' = "ok" =>
                    (ParsesToObjects(stored') /\ Contains(Parse(stored'), items[i]))]_vars

====
